---- MODULE Spec2Model ----
(***************************************************************************)
(* Tick-based motion controller of the wandering robot:                    *)
(* firmware/control/controller.py (Controller.run, emergency_stop,         *)
(* execute_motion), firmware/control/policy.py (Policy) and                *)
(* firmware/policy_manager.py (PolicyManager), with the configuration      *)
(* store (firmware/config_manager.py) and the dashboard hub                *)
(* (firmware/web/sse.py, firmware/web/server.py /api/events).              *)
(*                                                                         *)
(* Units: speeds are in hundredths (0.7 -> 70), distances in whole cm.     *)
(* One loop iteration of Controller.run is one tick.  The loop position is *)
(* pc: "top" (line 210), "drain" (lines 276-348, one command per step),    *)
(* "crashed" (an exception left run() through its finally block).          *)
(* The collaborators of the loop are exercised on their own by behaviours  *)
(* that start at pc = "policy", "fn", "config", "pm" or "hub".             *)
(***************************************************************************)
EXTENDS Integers, Sequences, FiniteSets, TLC

VARIABLES
    pc,                 \* position of the control thread in Controller.run
    crash_cause,        \* "none", or what raised out of run()
    auto_mode,          \* Controller.auto_mode
    emergency_stopped,  \* Controller.emergency_stopped
    queued_moves,       \* Controller.queued_moves: <<[motion, speed, ticks]>>
    current_motion,     \* Controller.current_motion
    current_speed,      \* Controller.current_speed
    dist_hist,          \* Controller.dist_hist, deque(maxlen=STUCK_STEPS)
    stuck_cooldown,     \* Controller.stuck_cooldown
    commands_q,         \* Controller.commands_q (queue.Queue fed by producers)
    policy,             \* kind of object held in Controller.policy
    snapshot,           \* last message handed to Controller._broadcast
    last_state,         \* last snapshot the control thread handed to hub.set_state
    actuated,           \* motion primitive commanded by the last step
    last,               \* observation: what the control thread's last step was
    stop_execs,         \* observation: motions executed while a stop is pending
    pol,                \* a Policy object driven through its own operations
    pol_last,           \* observation: the last Policy operation and its result
    fn,                 \* a call of a pure Policy method: arguments and result
    overrides,          \* ConfigManager._overrides, when it is a dict
    overrides_type,     \* type of the object bound to ConfigManager._overrides
    cfg_get,            \* a ConfigManager.get call of the control thread
    persisted,          \* the file at ConfigManager._persist_path
    cfg_last,           \* observation: the last ConfigManager operation
    pm,                 \* PolicyManager: active name/policy, last error, stored code
    pm_last,            \* observation: the last PolicyManager operation and its result
    hub,                \* DashboardHub._last_state and the queues of its clients
    hub_last            \* observation: the last hub operation, what a subscriber read

vars == <<pc, crash_cause, auto_mode, emergency_stopped, queued_moves,
          current_motion, current_speed, dist_hist, stuck_cooldown,
          commands_q, policy, snapshot, last_state, actuated, last, stop_execs,
          pol, pol_last,
          fn, overrides, overrides_type, cfg_get, persisted, cfg_last,
          pm, pm_last, hub, hub_last>>

ctlvars == <<crash_cause, auto_mode, emergency_stopped, queued_moves,
             current_motion, current_speed, dist_hist, stuck_cooldown,
             commands_q, policy, snapshot, last_state, actuated, last, stop_execs>>

polvars == <<pol, pol_last>>

cfgvars == <<overrides, overrides_type, cfg_get, persisted, cfg_last>>

pmvars == <<pm, pm_last>>

hubvars == <<hub, hub_last>>

\* the collaborators the control loop and the Policy object do not touch
extvars == <<fn, cfgvars, pmvars, hubvars>>

----------------------------------------------------------------------------
(* firmware/config.py *)

\* durations are in milliseconds (0.5 s -> 500)
TICK_S == 500
MOVE_TICK_S == 500
TURN_TICK_S == 500
FORWARD_SPD == 70
TURN_SPD == 45
BACK_SPD == 60
STOP_CM == 15
CLEAR_CM == 30
STUCK_DELTA_CM == 5
STUCK_STEPS == 3
BACK_TICKS == 1
NUDGE_TICKS == 1
STUCK_COOLDOWN_STEPS == 3

\* float('inf'), the "no echo" reading of the sensor facade
Inf == 999

----------------------------------------------------------------------------
(* Bounds of the model *)

\* commands waiting in commands_q at one time
MaxCmdQ == 1
\* moves waiting in queued_moves at one time (remote commands accepted)
MaxQueue == 1
\* cap of Policy.consecutive_no_echo
MaxNoEcho == 3

\* front readings the sensor facade returns: an obstacle, a reading in the
\* caution band, a clear way less than STUCK_DELTA_CM further, no echo
Readings == {10, 26, 30, Inf}

\* readings of the command-centred specification
CmdReadings == {30, Inf}

\* longest history handed to is_robot_stuck (one more than the window)
MaxHist == 4

\* /api/events connections open at one time
MaxClients == 2

\* messages waiting in one _SSEClient.queue (the queue itself is unbounded)
MaxBacklog == 2

\* readings of the histories handed to is_robot_stuck: spreads of 0, 1, 4
\* (below the threshold), 5 (the threshold) and more
HistReadings == {10, 14, 15, 30}

\* readings handed to decide_next_motion: around STOP_CM and CLEAR_CM
DecideReadings == {0, 14, 15, 16, 29, 30, 31, Inf}

Motions == {"forward", "backward", "left", "right"}
Turns == {"left", "right"}

----------------------------------------------------------------------------
(* Inbound commands: legacy strings and structured dicts.  A dict field    *)
(* that is absent reads as "None" (dict.get); speedk/duration kinds are    *)
(* "none" (absent), "num" (a number) or "bad" (not a number).              *)

Str(s) ==
    [form |-> "str", type |-> "None", name |-> s, mode |-> "None",
     speedk |-> "none", speed |-> 0, duration_ms |-> "none", duration_s |-> "none"]

ModeCmd(m) ==
    [form |-> "dict", type |-> "mode", name |-> "None", mode |-> m,
     speedk |-> "none", speed |-> 0, duration_ms |-> "none", duration_s |-> "none"]

Cmd(n, sk, s, dms, ds) ==
    [form |-> "dict", type |-> "cmd", name |-> n, mode |-> "None",
     speedk |-> sk, speed |-> s, duration_ms |-> dms, duration_s |-> ds]

OtherDict ==
    [form |-> "dict", type |-> "bogus", name |-> "forward", mode |-> "AUTO",
     speedk |-> "none", speed |-> 0, duration_ms |-> "none", duration_s |-> "none"]

LegacyCmds == {Str(s) : s \in {"toggle", "auto", "stop", "bogus"} \cup Motions}

StructuredCmds ==
    {ModeCmd(m) : m \in {"AUTO", "REMOTE", "None"}}
    \cup {Cmd(n, "none", 0, "none", "none") :
            n \in {"toggle", "auto", "stop", "bogus", "None"} \cup Motions}
    \cup {Cmd("forward", "num", 30, "num", "none"),
          Cmd("left", "bad", 0, "none", "none"),
          Cmd("backward", "none", 0, "none", "bad"),
          OtherDict}

Commands == LegacyCmds \cup StructuredCmds

\* commands of the sensing-centred specification
CoreCommands == {Str("toggle"), Str("stop"), Str("forward")}

IsStop(c) == c.name = "stop" /\ (c.form = "str" \/ c.type = "cmd")

HasStop(q) == \E i \in 1..Len(q) : IsStop(q[i])

----------------------------------------------------------------------------
(* Values *)

Move(m, s, t) == [motion |-> m, speed |-> s, ticks |-> t]

NoMove == [motion |-> "none", speed |-> 0]

Act(m, s) == [motion |-> m, speed |-> s]

Snap(mode, em, es, nm, ns, stuck, qlen) ==
    [mode |-> mode, executed_motion |-> em, executed_speed |-> es,
     next_motion |-> nm, next_speed |-> ns, stuck |-> stuck, queue_len |-> qlen]

NoSnap == Snap("NONE", "stop", 0, "stop", 0, 0, 0)

\* observation of a step of the control thread.  reading: the front reading
\* of line 449 (0 when the step took none); decided: the step called
\* policy.decide_next_motion
LastAuto(kind, cond, cd, reading, decided) ==
    [kind |-> kind, cond |-> cond, cd |-> cd, reading |-> reading, decided |-> decided,
     requested |-> 0, duration |-> 0]

Last(kind, cond, cd) == LastAuto(kind, cond, cd, 0, FALSE)

\* a step that called execute_motion with this duration (ms)
LastExec(kind, cond, cd, reading, decided, duration) ==
    [LastAuto(kind, cond, cd, reading, decided) EXCEPT !.duration = duration]

\* a step of the drain; requested: the duration (ms) lines 316-320 resolved
\* for a structured movement command, 0 for any other command
LastCmd(kind, cd, requested) ==
    [Last(kind, FALSE, cd) EXCEPT !.requested = requested]

\* upper-case attributes of the defaults module (three of them)
DefaultKeys == {"STOP_CM", "TURN_SPD", "BACK_TICKS"}

Defaults ==
    [k \in DefaultKeys |-> IF k = "STOP_CM" THEN STOP_CM
                           ELSE IF k = "TURN_SPD" THEN TURN_SPD
                           ELSE BACK_TICKS]

\* ConfigManager.get(key, default) on a dict
Get(ov, key, default) ==
    IF key \in DOMAIN ov THEN ov[key]
    ELSE IF key \in DefaultKeys THEN Defaults[key]
    ELSE default

\* Controller._cfg: the override of the key, else the compiled default
Cfg(key, default) == Get(overrides, key, default)

\* the speed of a REMOTE move that names none (lines 308-314, 345-347)
DefaultSpeed(m) ==
    IF m = "forward" THEN Cfg("FORWARD_SPD", FORWARD_SPD)
    ELSE IF m = "backward" THEN Cfg("BACK_SPD", BACK_SPD)
    ELSE Cfg("TURN_SPD", TURN_SPD)

\* lines 316-320: duration_ms / 1000, else duration_s, else TICK_S; a
\* duration_ms that holds a number holds 2000, a duration_s 1
ResolvedDuration(c) ==
    IF c.duration_ms # "none" THEN 2000
    ELSE IF c.duration_s # "none" THEN 1000
    ELSE Cfg("TICK_S", TICK_S)

\* Controller._duration_for_motion
DurationForMotion(m) ==
    IF m \in {"forward", "backward"} THEN Cfg("MOVE_TICK_S", MOVE_TICK_S)
    ELSE IF m \in {"left", "right"} THEN Cfg("TURN_TICK_S", TURN_TICK_S)
    ELSE Cfg("TICK_S", TICK_S)

SeqMax(s) == CHOOSE x \in {s[i] : i \in 1..Len(s)} : \A j \in 1..Len(s) : s[j] <= x
SeqMin(s) == CHOOSE x \in {s[i] : i \in 1..Len(s)} : \A j \in 1..Len(s) : s[j] >= x

----------------------------------------------------------------------------
(* Policy (firmware/control/policy.py) *)

\* Policy.decide_next_motion line 208 draws random.choice only for an obstacle;
\* an outcome that is not drawn is fixed to "left"
DrawsDirection(d, dir) == (d = Inf \/ d > STOP_CM) => dir = "left"

\* the trigger draws random.choice for the turn of the macro
DrawsTurn(stuck, turn_dir) == ~stuck => turn_dir = "left"

\* the obstacle rule with a strict comparison
DecideStrictStop(d, prev, dir) ==
    IF d = Inf THEN Act("stop", 0)
    ELSE IF d < STOP_CM THEN Act(dir, TURN_SPD)
    ELSE IF d >= CLEAR_CM THEN Act("forward", FORWARD_SPD)
    ELSE IF prev \in Turns THEN Act(prev, (TURN_SPD * 8) \div 10)
    ELSE Act("forward", (FORWARD_SPD * 8) \div 10)

\* the clear rule with a strict comparison
DecideStrictClear(d, prev, dir) ==
    IF d = Inf THEN Act("stop", 0)
    ELSE IF d <= STOP_CM THEN Act(dir, TURN_SPD)
    ELSE IF d > CLEAR_CM THEN Act("forward", FORWARD_SPD)
    ELSE IF prev \in Turns THEN Act(prev, (TURN_SPD * 8) \div 10)
    ELSE Act("forward", (FORWARD_SPD * 8) \div 10)

\* the turn-bias rule evaluated before the clear rule
DecideBiasFirst(d, prev, dir) ==
    IF d = Inf THEN Act("stop", 0)
    ELSE IF d <= STOP_CM THEN Act(dir, TURN_SPD)
    ELSE IF prev \in Turns THEN Act(prev, (TURN_SPD * 8) \div 10)
    ELSE IF d >= CLEAR_CM THEN Act("forward", FORWARD_SPD)
    ELSE Act("forward", (FORWARD_SPD * 8) \div 10)

\* Policy.decide_next_motion; dir is the outcome of random.choice
DecideNextMotion(d, prev, dir) ==
    IF d = Inf THEN Act("stop", 0)
    ELSE IF d <= STOP_CM THEN Act(dir, TURN_SPD)
    ELSE IF d >= CLEAR_CM THEN Act("forward", FORWARD_SPD)
    ELSE IF prev \in Turns THEN Act(prev, (TURN_SPD * 8) \div 10)
    ELSE Act("forward", (FORWARD_SPD * 8) \div 10)

\* a detector that accepts a spread equal to the threshold
IsRobotStuckInclusive(hist, next_motion) ==
    IF Len(hist) = 0 \/ Len(hist) # STUCK_STEPS
       \/ next_motion \notin {"forward", "backward"}
    THEN [stuck |-> FALSE, cooldown |-> 0]
    ELSE IF SeqMax(hist) - SeqMin(hist) <= STUCK_DELTA_CM
    THEN [stuck |-> TRUE, cooldown |-> STUCK_COOLDOWN_STEPS]
    ELSE [stuck |-> FALSE, cooldown |-> 0]

\* Policy.is_robot_stuck: [stuck, cooldown]
IsRobotStuck(hist, next_motion) ==
    IF Len(hist) = 0 \/ Len(hist) # STUCK_STEPS
       \/ next_motion \notin {"forward", "backward"}
    THEN [stuck |-> FALSE, cooldown |-> 0]
    ELSE IF SeqMax(hist) - SeqMin(hist) < STUCK_DELTA_CM
    THEN [stuck |-> TRUE, cooldown |-> STUCK_COOLDOWN_STEPS]
    ELSE [stuck |-> FALSE, cooldown |-> 0]

\* deque(maxlen=STUCK_STEPS).append
DequeAppend(hist, d) ==
    IF Len(hist) >= STUCK_STEPS THEN Append(Tail(hist), d) ELSE Append(hist, d)

----------------------------------------------------------------------------
(* Initial state: Controller.__init__ *)

PolInit ==
    [dist_hist |-> <<>>, stuck_cooldown |-> 0, queued_moves |-> <<>>,
     consecutive_no_echo |-> 0]

PolLast(kind, cd, ret) == [kind |-> kind, cd |-> cd, ret |-> ret]

NoRet == [motion |-> "none", speed |-> 0, is_recovery |-> FALSE]

\* observation of an update_distance(d) call
PolUpdate(cd, d) == [kind |-> "update", cd |-> cd, ret |-> NoRet, reading |-> d]

\* no call made
NoCall == [op |-> "none"]

\* a dict with no entries
EmptyMap == [k \in {} |-> 0]

\* ConfigManager with no override file
NoFile == [exists |-> FALSE, parsed |-> "dict", data |-> EmptyMap]

\* observation of a ConfigManager operation: its argument, whether it raised
CfgLast(op, patch, raised) == [op |-> op, patch |-> patch, raised |-> raised]

\* no ConfigManager.get call in progress
NoGet == [pc |-> "idle", key |-> "none", before |-> 0, ret |-> 0, raised |-> FALSE]

\* PolicyManager.__init__ with no stored code: reload() takes the default
PMInit == [active_name |-> "default", active |-> "default", last_error |-> "None",
           storage |-> "none"]

\* a connection slot with no /api/events request being served
NoClient == [subscribed |-> FALSE, queue |-> <<>>]

\* DashboardHub.__init__
HubInit == [last_state |-> "None", clients |-> [c \in 1..MaxClients |-> NoClient]]

\* observation of a hub operation: the message published last, the message
\* or state a reader was handed
HubLast(op, published, read) == [op |-> op, published |-> published, read |-> read]

FnIdle == fn = NoCall

CfgIdle ==
    /\ overrides = EmptyMap
    /\ overrides_type = "dict"
    /\ cfg_get = NoGet
    /\ persisted = NoFile
    /\ cfg_last = CfgLast("init", EmptyMap, FALSE)

\* observation of a PolicyManager operation
PMLast(op, raised, ret) == [op |-> op, raised |-> raised, ret |-> ret]

PMIdle ==
    /\ pm = PMInit
    /\ pm_last = PMLast("init", FALSE, NoRet)

HubIdle ==
    /\ hub = HubInit
    /\ hub_last = HubLast("init", "None", "None")

\* the collaborators as constructed, not exercised
ExtIdle == FnIdle /\ CfgIdle /\ PMIdle /\ HubIdle

Init ==
    /\ pc = "top"
    /\ crash_cause = "none"
    /\ auto_mode = FALSE
    /\ emergency_stopped = FALSE
    /\ queued_moves = <<>>
    /\ current_motion = "stop"
    /\ current_speed = 0
    /\ dist_hist = <<>>
    /\ stuck_cooldown = 0
    /\ commands_q = <<>>
    /\ policy \in {"None", "Policy", "PolicyManager"}
    /\ snapshot = NoSnap
    /\ last_state = NoSnap
    /\ actuated = NoMove
    /\ last = Last("init", FALSE, 0)
    /\ stop_execs = 0
    /\ pol = PolInit
    /\ pol_last = PolLast("init", 0, NoRet)
    /\ ExtIdle

----------------------------------------------------------------------------
(* Controller state touched by the command drain, as one record *)

CtlState ==
    [auto_mode |-> auto_mode, emergency_stopped |-> emergency_stopped,
     queued_moves |-> queued_moves, current_motion |-> current_motion,
     current_speed |-> current_speed, snapshot |-> snapshot, crash |-> "none"]

\* Controller.emergency_stop; fault: robot.stop() raises (caught, returns False)
EmergencyStop(s, fault) ==
    IF fault THEN s
    ELSE [s EXCEPT !.queued_moves = <<>>,
                   !.current_motion = "stop",
                   !.current_speed = 0,
                   !.emergency_stopped = TRUE,
                   !.snapshot = Snap("STOPPED", "stop", 0, "stop", 0, 0, 0)]

\* robot.stop(); queued_moves.clear() of the mode-changing commands
StopAndClear(s, fault) ==
    IF fault THEN [s EXCEPT !.crash = "robot_stop"]
    ELSE [s EXCEPT !.queued_moves = <<>>]

\* {"type": "mode", "mode": ...}
ModeCommand(s, c, fault) ==
    IF fault THEN [s EXCEPT !.crash = "robot_stop"]
    ELSE [s EXCEPT !.queued_moves = <<>>, !.auto_mode = (c.mode = "AUTO")]

\* a movement command that jumps the queue
StructuredMoveFirst(s, c) ==
    LET speed == IF c.speedk = "none" THEN DefaultSpeed(c.name) ELSE c.speed
    IN  [s EXCEPT !.queued_moves = <<Move(c.name, speed, 1)>> \o @]

\* {"type": "cmd", "name": <motion>, ...} in REMOTE mode
StructuredMove(s, c) ==
    LET speed == IF c.speedk = "none" THEN DefaultSpeed(c.name) ELSE c.speed
        durationRaises ==
            IF c.duration_ms # "none" THEN c.duration_ms = "bad"
            ELSE IF c.duration_s # "none" THEN c.duration_s = "bad"
            ELSE FALSE
    IN  IF durationRaises \/ c.speedk = "bad"
        THEN [s EXCEPT !.crash = "command"]
        ELSE [s EXCEPT !.queued_moves = Append(@, Move(c.name, speed, 1))]

\* {"type": "cmd", "name": ...}
StructuredCommand(s, c, fault) ==
    IF c.name = "toggle"
    THEN StopAndClear([s EXCEPT !.auto_mode = ~s.auto_mode], fault)
    ELSE IF c.name = "auto"
    THEN StopAndClear([s EXCEPT !.auto_mode = TRUE], fault)
    ELSE IF ~s.auto_mode /\ c.name \in Motions
    THEN StructuredMove(s, c)
    ELSE IF c.name = "stop"
    THEN EmergencyStop(s, fault)
    ELSE s

\* legacy string commands
LegacyCommand(s, c, fault) ==
    IF c.name = "toggle"
    THEN StopAndClear([s EXCEPT !.emergency_stopped = FALSE,
                                !.auto_mode = ~s.auto_mode], fault)
    ELSE IF c.name = "auto"
    THEN StopAndClear([s EXCEPT !.auto_mode = TRUE], fault)
    ELSE IF c.name = "stop"
    THEN EmergencyStop(s, fault)
    ELSE IF c.name \in Motions /\ ~s.auto_mode
    THEN [s EXCEPT !.queued_moves = Append(@, Move(c.name, DefaultSpeed(c.name), 1))]
    ELSE s

\* one pass of the drain loop body for command c
ProcessCommand(s, c, fault) ==
    IF c.form = "dict"
    THEN IF c.type = "mode" THEN ModeCommand(s, c, fault)
         ELSE IF c.type = "cmd" THEN StructuredCommand(s, c, fault)
         ELSE s
    ELSE LegacyCommand(s, c, fault)

\* the duration lines 316-320 resolve for a structured movement command in
\* REMOTE mode; 0 for a command that resolves none
RequestedDuration(s, c) ==
    IF c.form = "dict" /\ c.type = "cmd" /\ ~s.auto_mode /\ c.name \in Motions
    THEN ResolvedDuration(c)
    ELSE 0

\* whether processing c calls the actuator (so that a fault can occur)
CallsActuator(s, c) ==
    \/ c.form = "dict" /\ c.type = "mode"
    \/ (c.form = "str" \/ c.type = "cmd") /\ c.name \in {"toggle", "auto", "stop"}

\* execute_motion: the primitive the actuator is commanded
ExecuteMotion(m, s) ==
    IF m \in Motions THEN Act(m, s) ELSE Act("stop", s)

\* count of motions executed while a stop command waits in commands_q
CountExec == IF HasStop(commands_q) THEN stop_execs + 1 ELSE stop_execs

----------------------------------------------------------------------------
(* Actions *)

\* a producer thread (HTTP handler, keyboard) puts a command on the queue;
\* followed only while run() is alive to consume it
Produce(c) ==
    /\ pc \in {"top", "drain"}
    /\ Len(commands_q) < MaxCmdQ
    /\ commands_q' = Append(commands_q, c)
    /\ UNCHANGED <<pc, crash_cause, auto_mode, emergency_stopped, queued_moves,
                   current_motion, current_speed, dist_hist, stuck_cooldown,
                   policy, snapshot, last_state, actuated, last, stop_execs>>
    /\ UNCHANGED <<polvars, extvars>>

\* an exception leaves run(): finally robot.stop(), sensor.close()
Crash(cause) ==
    /\ pc' = "crashed"
    /\ crash_cause' = cause
    /\ actuated' = NoMove

\* a queue whose head is popped after one tick whatever its count
QueueAfterTickPop(queue) == Tail(queue)

\* lines 219-227: the queue after one tick of its head
QueueAfterTick(queue) ==
    IF queue[1].ticks - 1 > 0
    THEN [queue EXCEPT ![1].ticks = queue[1].ticks - 1]
    ELSE Tail(queue)

\* lines 212-272: a queued move is executed before anything else
QueuedTick(fault) ==
    /\ pc = "top"
    /\ queued_moves # <<>>
    /\ LET head == queued_moves[1]
           rest == QueueAfterTick(queued_moves)
       IN  IF fault
           THEN /\ Crash("execute_motion")
                /\ last' = Last("crash", FALSE, stuck_cooldown)
                /\ UNCHANGED <<queued_moves, current_motion, current_speed,
                               snapshot, stop_execs>>
           ELSE /\ pc' = "top"
                /\ queued_moves' = rest
                /\ current_motion' = head.motion
                /\ current_speed' = head.speed
                /\ actuated' = ExecuteMotion(head.motion, head.speed)
                /\ snapshot' = Snap("RECOVERY", head.motion, head.speed,
                                    IF rest # <<>> THEN rest[1].motion ELSE "idle",
                                    IF rest # <<>> THEN rest[1].speed ELSE 0,
                                    1, Len(rest))
                /\ last' = LastExec("queued", FALSE, stuck_cooldown, 0, FALSE,
                                     DurationForMotion(head.motion))
                /\ stop_execs' = CountExec
                /\ UNCHANGED crash_cause
    /\ UNCHANGED <<auto_mode, emergency_stopped, dist_hist, stuck_cooldown,
                   commands_q, policy, last_state>>
    /\ UNCHANGED <<polvars, extvars>>

\* line 212 false: fall through to the command drain
BeginDrain ==
    /\ pc = "top"
    /\ queued_moves = <<>>
    /\ pc' = "drain"
    /\ UNCHANGED <<crash_cause, auto_mode, emergency_stopped, queued_moves,
                   current_motion, current_speed, dist_hist, stuck_cooldown,
                   commands_q, policy, snapshot, last_state, actuated, last, stop_execs>>
    /\ UNCHANGED <<polvars, extvars>>

\* lines 276-348: get_nowait() returned a command; bound: the moves followed
\* in queued_moves
DrainCommandUpTo(fault, bound) ==
    /\ pc = "drain"
    /\ commands_q # <<>>
    /\ LET c == Head(commands_q)
           r == ProcessCommand(CtlState, c, fault /\ CallsActuator(CtlState, c))
       IN  /\ Len(r.queued_moves) <= bound
           /\ commands_q' = Tail(commands_q)
           /\ auto_mode' = r.auto_mode
           /\ emergency_stopped' = r.emergency_stopped
           /\ queued_moves' = r.queued_moves
           /\ current_motion' = r.current_motion
           /\ current_speed' = r.current_speed
           /\ snapshot' = r.snapshot
           /\ last' = LastCmd(IF r.crash = "none" THEN "cmd" ELSE "crash", stuck_cooldown,
                              IF r.crash = "none" THEN RequestedDuration(CtlState, c)
                              ELSE 0)
           /\ stop_execs' = IF IsStop(c) THEN 0 ELSE stop_execs
           /\ IF r.crash = "none"
              THEN /\ pc' = "drain"
                   /\ actuated' = NoMove
                   /\ UNCHANGED crash_cause
              ELSE Crash(r.crash)
    /\ UNCHANGED <<dist_hist, stuck_cooldown, policy, last_state>>
    /\ UNCHANGED <<polvars, extvars>>

DrainCommand(fault) == DrainCommandUpTo(fault, MaxQueue)

\* lines 351-353: emergency-stop gate
EStopIdle ==
    /\ pc = "drain"
    /\ commands_q = <<>>
    /\ emergency_stopped
    /\ pc' = "top"
    /\ actuated' = NoMove
    /\ last' = Last("estop_idle", FALSE, stuck_cooldown)
    /\ UNCHANGED <<crash_cause, auto_mode, emergency_stopped, queued_moves,
                   current_motion, current_speed, dist_hist, stuck_cooldown,
                   commands_q, policy, snapshot, last_state, stop_execs>>
    /\ UNCHANGED <<polvars, extvars>>

\* lines 356-388: REMOTE idle; publish: the 5 s rate limit has elapsed
RemoteIdle(publish) ==
    /\ pc = "drain"
    /\ commands_q = <<>>
    /\ ~emergency_stopped
    /\ ~auto_mode
    /\ queued_moves = <<>>
    /\ pc' = "top"
    /\ actuated' = NoMove
    /\ snapshot' = IF publish THEN Snap("REMOTE", "stop", 0, "idle", 0, 0, 0)
                   ELSE snapshot
    /\ last_state' = IF publish THEN Snap("REMOTE", "stop", 0, "idle", 0, 0, 0)
                     ELSE last_state
    /\ last' = Last("remote_idle", FALSE, stuck_cooldown)
    /\ UNCHANGED <<crash_cause, auto_mode, emergency_stopped, queued_moves,
                   current_motion, current_speed, dist_hist, stuck_cooldown,
                   commands_q, policy, stop_execs>>
    /\ UNCHANGED <<polvars, extvars>>

\* lines 391-437: REMOTE with a queued move
RemoteExec(fault) ==
    /\ pc = "drain"
    /\ commands_q = <<>>
    /\ ~emergency_stopped
    /\ ~auto_mode
    /\ queued_moves # <<>>
    /\ LET head == queued_moves[1]
           rest == Tail(queued_moves)
       IN  /\ queued_moves' = rest
           /\ IF fault
              THEN /\ Crash("execute_motion")
                   /\ last' = Last("crash", FALSE, stuck_cooldown)
                   /\ UNCHANGED <<snapshot, last_state, stop_execs>>
              ELSE /\ pc' = "top"
                   /\ actuated' = ExecuteMotion(head.motion, head.speed)
                   /\ snapshot' = Snap("REMOTE", head.motion, head.speed, "idle", 0,
                                       0, Len(rest))
                   /\ last_state' = Snap("REMOTE", head.motion, head.speed, "idle", 0,
                                         0, Len(rest))
                   /\ last' = LastExec("remote", FALSE, stuck_cooldown, 0, FALSE,
                                        DurationForMotion(head.motion))
                   /\ stop_execs' = CountExec
                   /\ UNCHANGED crash_cause
    /\ UNCHANGED <<auto_mode, emergency_stopped, current_motion, current_speed,
                   dist_hist, stuck_cooldown, commands_q, policy>>
    /\ UNCHANGED <<polvars, extvars>>

\* lines 489-493: the recovery macro
RecoveryMacro(turn_dir) ==
    <<Move("backward", Cfg("BACK_SPD", BACK_SPD), Cfg("BACK_TICKS", BACK_TICKS)),
      Move(turn_dir, Cfg("TURN_SPD", TURN_SPD), Cfg("NUDGE_TICKS", NUDGE_TICKS))>>

\* a gate that never opens
StuckGateClosed(hist, cooldown) == Len(hist) >= STUCK_STEPS /\ cooldown < 0

\* a gate that ignores the cooldown
StuckGateNoCooldown(hist, cooldown) == Len(hist) >= STUCK_STEPS

\* line 481: the gate in front of is_robot_stuck
StuckGate(hist, cooldown) == Len(hist) >= STUCK_STEPS /\ cooldown <= 0

\* lines 472-501: [stuck, cooldown] of the Auto tick's stuck check
StuckCheck(hist, cooldown, next_motion) ==
    IF StuckGate(hist, cooldown) THEN IsRobotStuck(hist, next_motion)
    ELSE [stuck |-> FALSE, cooldown |-> 0]

\* lines 532-534: cooldown decrement at the end of the Auto tick
CooldownAfterTick(cd) == IF cd > 0 THEN cd - 1 ELSE cd

\* a history that takes the sentinel too
HistAfterTickAll(hist, front_d) == DequeAppend(hist, front_d)

\* lines 518-523: history update with the reading taken at line 449
HistAfterTick(hist, front_d) ==
    IF front_d # Inf THEN DequeAppend(hist, front_d) ELSE hist

\* the spread condition of the stuck detector on the history and decision
SpreadCondition(hist, motion) ==
    /\ Len(hist) = STUCK_STEPS
    /\ SeqMax(hist) - SeqMin(hist) < STUCK_DELTA_CM
    /\ motion \in {"forward", "backward"}

\* lines 445-595: one AUTO iteration.  front_d: the reading of line 449,
\* dir / turn_dir: outcomes of random.choice, fault: the actuator raises
AutoTick(front_d, dir, turn_dir, fault) ==
    /\ pc = "drain"
    /\ commands_q = <<>>
    /\ ~emergency_stopped
    /\ auto_mode
    /\ LET exec == IF queued_moves # <<>>
                   THEN Act(queued_moves[1].motion, queued_moves[1].speed)
                   ELSE Act(current_motion, current_speed)
       IN  IF policy = "PolicyManager"
           THEN \* line 469: PolicyManager defines no decide_next_motion
                /\ dir = "left" /\ turn_dir = "left" /\ ~fault
                /\ Crash("policy")
                /\ last' = Last("crash", FALSE, stuck_cooldown)
                /\ UNCHANGED <<queued_moves, current_motion, current_speed,
                               dist_hist, stuck_cooldown, snapshot, last_state,
                               stop_execs>>
           ELSE LET dec == IF policy = "Policy"
                           THEN DecideNextMotion(front_d, exec.motion, dir)
                           ELSE exec
                    chk == IF policy = "Policy"
                           THEN StuckCheck(dist_hist, stuck_cooldown, dec.motion)
                           ELSE [stuck |-> FALSE, cooldown |-> 0]
                    next == IF chk.stuck
                            THEN Act("forward", Cfg("FORWARD_SPD", FORWARD_SPD))
                            ELSE dec
                    queue == IF chk.stuck THEN RecoveryMacro(turn_dir) ELSE queued_moves
                    cd == IF chk.stuck THEN chk.cooldown ELSE stuck_cooldown
                    cond == policy = "Policy" /\ SpreadCondition(dist_hist, dec.motion)
                IN  /\ policy = "Policy" => DrawsDirection(front_d, dir)
                    /\ policy # "Policy" => dir = "left"
                    /\ DrawsTurn(chk.stuck, turn_dir)
                    /\ queued_moves' = queue
                    /\ current_motion' = next.motion
                    /\ current_speed' = next.speed
                    /\ IF fault
                       THEN /\ Crash("execute_motion")
                            /\ stuck_cooldown' = cd
                            /\ last' = Last("crash", cond, stuck_cooldown)
                            /\ UNCHANGED <<dist_hist, snapshot, last_state, stop_execs>>
                       ELSE /\ pc' = "top"
                            /\ actuated' = ExecuteMotion(next.motion, next.speed)
                            /\ dist_hist' = HistAfterTick(dist_hist, front_d)
                            /\ stuck_cooldown' = CooldownAfterTick(cd)
                            /\ snapshot' =
                                 Snap("AUTO", exec.motion, exec.speed,
                                      IF queue # <<>> THEN queue[1].motion ELSE next.motion,
                                      IF queue # <<>> THEN queue[1].speed ELSE next.speed,
                                      IF chk.stuck THEN 1 ELSE 0, Len(queue))
                            /\ last_state' =
                                 Snap("AUTO", exec.motion, exec.speed,
                                      IF queue # <<>> THEN queue[1].motion
                                      ELSE current_motion',
                                      IF queue # <<>> THEN queue[1].speed
                                      ELSE current_speed',
                                      IF chk.stuck THEN 1 ELSE 0, Len(queue))
                            /\ last' = LastExec("auto", cond, stuck_cooldown, front_d,
                                                policy = "Policy",
                                                DurationForMotion(next.motion))
                            /\ stop_execs' = CountExec
                            /\ UNCHANGED crash_cause
    /\ UNCHANGED <<auto_mode, emergency_stopped, commands_q, policy>>
    /\ UNCHANGED <<polvars, extvars>>

----------------------------------------------------------------------------
(* The Policy object (firmware/control/policy.py), driven through          *)
(* update_distance and get_next_action, the operations PolicyManager        *)
(* forwards to it.  Controller.run never calls them: it uses               *)
(* decide_next_motion and is_robot_stuck only, so the Policy object's own  *)
(* history, cooldown and queue are independent of the controller's.  A     *)
(* behaviour that starts with pc = "policy" exercises the object alone.    *)

\* Policy.update_distance
UpdateDistance(p, d) ==
    IF d # Inf
    THEN [p EXCEPT !.dist_hist = DequeAppend(@, d), !.consecutive_no_echo = 0]
    ELSE [p EXCEPT !.consecutive_no_echo = @ + 1]

\* Policy.get_next_action lines 82-95: one tick of the head of the queue
ConsumeQueued(p, kind) ==
    LET head == p.queued_moves[1]
        rest == IF head.ticks - 1 > 0
                THEN [p.queued_moves EXCEPT ![1].ticks = head.ticks - 1]
                ELSE Tail(p.queued_moves)
    IN  [pol |-> [p EXCEPT !.queued_moves = rest], kind |-> kind,
         ret |-> [motion |-> head.motion, speed |-> head.speed, is_recovery |-> TRUE]]

\* Policy.get_next_action lines 122-125
PolicyRecoveryMacro(turn_dir) ==
    <<Move("backward", BACK_SPD, BACK_TICKS), Move(turn_dir, TURN_SPD, NUDGE_TICKS)>>

\* a check without the no-echo rule
PolicyStuckCheckSpreadOnly(p, next_motion) ==
    IF Len(p.dist_hist) >= STUCK_STEPS /\ p.stuck_cooldown <= 0
    THEN IsRobotStuck(p.dist_hist, next_motion)
    ELSE [stuck |-> FALSE, cooldown |-> 0]

\* Policy.get_next_action lines 100-116: [stuck, cooldown]
PolicyStuckCheck(p, next_motion) ==
    IF p.consecutive_no_echo >= STUCK_STEPS /\ p.stuck_cooldown <= 0
    THEN [stuck |-> TRUE, cooldown |-> STUCK_COOLDOWN_STEPS]
    ELSE IF Len(p.dist_hist) >= STUCK_STEPS /\ p.stuck_cooldown <= 0
    THEN IsRobotStuck(p.dist_hist, next_motion)
    ELSE [stuck |-> FALSE, cooldown |-> 0]

\* Policy.get_next_action: [pol, kind, ret]
GetNextAction(p, prev_motion, d, dir, turn_dir) ==
    IF p.queued_moves # <<>>
    THEN ConsumeQueued(p, "queue")
    ELSE LET dec == DecideNextMotion(d, prev_motion, dir)
             chk == PolicyStuckCheck(p, dec.motion)
         IN  IF chk.stuck
             THEN ConsumeQueued([p EXCEPT !.queued_moves = PolicyRecoveryMacro(turn_dir),
                                          !.stuck_cooldown = chk.cooldown,
                                          !.consecutive_no_echo = 0], "trigger")
             ELSE [pol |-> [p EXCEPT !.stuck_cooldown = IF @ > 0 THEN @ - 1 ELSE @],
                   kind |-> "decide",
                   ret |-> [motion |-> dec.motion, speed |-> dec.speed,
                            is_recovery |-> FALSE]]

PolicyUpdateDistance(d) ==
    /\ pc = "policy"
    /\ d = Inf => pol.consecutive_no_echo < MaxNoEcho
    /\ pol' = UpdateDistance(pol, d)
    /\ pol_last' = PolUpdate(pol.stuck_cooldown, d)
    /\ UNCHANGED <<pc, ctlvars, extvars>>

PolicyGetNextAction(prev_motion, d, dir, turn_dir) ==
    /\ pc = "policy"
    /\ LET r == GetNextAction(pol, prev_motion, d, dir, turn_dir)
       IN  /\ pol.queued_moves = <<>> => DrawsDirection(d, dir)
           /\ pol.queued_moves # <<>> => dir = "left"
           /\ DrawsTurn(r.kind = "trigger", turn_dir)
           /\ pol' = r.pol
           /\ pol_last' = PolLast(r.kind, pol.stuck_cooldown, r.ret)
    /\ UNCHANGED <<pc, ctlvars, extvars>>

----------------------------------------------------------------------------
(* Specification *)

\* the controller loop
Step(cmds, readings) ==
    \/ \E c \in cmds : Produce(c)
    \/ \E fault \in BOOLEAN : QueuedTick(fault)
    \/ BeginDrain
    \/ \E fault \in BOOLEAN : DrainCommand(fault)
    \/ EStopIdle
    \/ \E publish \in BOOLEAN : RemoteIdle(publish)
    \/ \E fault \in BOOLEAN : RemoteExec(fault)
    \/ \E front_d \in readings, dir \in Turns, turn_dir \in Turns, fault \in BOOLEAN :
          AutoTick(front_d, dir, turn_dir, fault)

\* the Policy object
PolicyStep(readings) ==
    \/ \E d \in readings : PolicyUpdateDistance(d)
    \/ \E prev_motion \in Motions \cup {"stop"}, d \in readings,
          dir \in Turns, turn_dir \in Turns :
          PolicyGetNextAction(prev_motion, d, dir, turn_dir)

\* the Policy object alone
InitPolicy ==
    /\ pc = "policy"
    /\ crash_cause = "none"
    /\ auto_mode = FALSE
    /\ emergency_stopped = FALSE
    /\ queued_moves = <<>>
    /\ current_motion = "stop"
    /\ current_speed = 0
    /\ dist_hist = <<>>
    /\ stuck_cooldown = 0
    /\ commands_q = <<>>
    /\ policy = "Policy"
    /\ snapshot = NoSnap
    /\ last_state = NoSnap
    /\ actuated = NoMove
    /\ last = Last("init", FALSE, 0)
    /\ stop_execs = 0
    /\ pol = PolInit
    /\ pol_last = PolLast("init", 0, NoRet)
    /\ ExtIdle

\* sensing-centred: every reading, the core commands
Next == Step(CoreCommands, Readings) \/ PolicyStep(Readings)

Spec == (Init \/ InitPolicy) /\ [][Next]_vars

\* command-centred: every command form, two readings
NextCmd == Step(Commands, CmdReadings)

SpecCmd == Init /\ [][NextCmd]_vars

----------------------------------------------------------------------------
(* The pure methods of Policy, called with arguments of the caller's choice *)

\* the control loop and the Policy object as constructed, not running
Parked(p) ==
    /\ pc = p
    /\ crash_cause = "none"
    /\ auto_mode = FALSE
    /\ emergency_stopped = FALSE
    /\ queued_moves = <<>>
    /\ current_motion = "stop"
    /\ current_speed = 0
    /\ dist_hist = <<>>
    /\ stuck_cooldown = 0
    /\ commands_q = <<>>
    /\ policy = "Policy"
    /\ snapshot = NoSnap
    /\ last_state = NoSnap
    /\ actuated = NoMove
    /\ last = Last("init", FALSE, 0)
    /\ stop_execs = 0
    /\ pol = PolInit
    /\ pol_last = PolLast("init", 0, NoRet)

Histories == UNION {[1..n -> HistReadings] : n \in 0..MaxHist}

\* Policy.is_robot_stuck(distance_history, next_motion, config)
CallIsRobotStuck(hist, next_motion) ==
    /\ pc = "fn"
    /\ fn = NoCall
    /\ fn' = [op |-> "is_robot_stuck", hist |-> hist, next_motion |-> next_motion,
              out |-> IsRobotStuck(hist, next_motion)]
    /\ UNCHANGED <<pc, ctlvars, polvars, cfgvars, pmvars, hubvars>>

\* Policy.decide_next_motion(distance_cm, prev_motion)
CallDecideNextMotion(d, prev_motion, dir) ==
    /\ pc = "fn"
    /\ fn = NoCall
    /\ DrawsDirection(d, dir)
    /\ fn' = [op |-> "decide_next_motion", d |-> d, prev_motion |-> prev_motion,
              out |-> DecideNextMotion(d, prev_motion, dir)]
    /\ UNCHANGED <<pc, ctlvars, polvars, cfgvars, pmvars, hubvars>>

InitFn == Parked("fn") /\ ExtIdle

NextFn ==
    \/ \E hist \in Histories, next_motion \in Motions \cup {"stop"} :
          CallIsRobotStuck(hist, next_motion)
    \/ \E d \in DecideReadings, prev_motion \in Motions \cup {"stop"}, dir \in Turns :
          CallDecideNextMotion(d, prev_motion, dir)

SpecFn == InitFn /\ [][NextFn]_vars

----------------------------------------------------------------------------
(* ConfigManager (firmware/config_manager.py) *)

\* keys in one set_overrides call
MaxPatch == 2

\* keys a caller may send: known, upper-case but unknown, not upper-case
PatchKeys == {"STOP_CM", "TURN_SPD", "BOGUS_KEY", "stop_cm"}

\* str.isupper on the keys in use
IsUpper(k) == k # "stop_cm"

ConfigValues == {15, 20}

Patches ==
    UNION {[S -> ConfigValues] : S \in {T \in SUBSET PatchKeys : Cardinality(T) <= MaxPatch}}

\* ConfigManager.get_effective on a dict
GetEffective(ov) ==
    [k \in DefaultKeys \cup DOMAIN ov |-> IF k \in DOMAIN ov THEN ov[k] ELSE Defaults[k]]

\* what json.load returns for a file: a dict, None (null), an int (5),
\* a list ([1]), or an exception (not JSON, or the file cannot be read)
Parsed == {"dict", "NoneType", "int", "list", "error"}

\* line 44, key in self._overrides: TypeError when the operand is no container
GetRaises(type) == type \in {"NoneType", "int"}

\* line 40, eff.update(self._overrides), and line 107, dict(self._overrides)
GetEffectiveRaises(type) == type # "dict"

\* line 54, self._overrides.get: AttributeError at the first upper-case key
SetOverridesRaises(type, patch) ==
    type # "dict" /\ \E k \in DOMAIN patch : IsUpper(k)

\* line 85, self._overrides.keys(), reached when the object is truthy
ClearOverridesRaises(type) == type \in {"int", "list"}

\* set_overrides lines 52-57: the keys whose override is written
Changes(ov, patch) ==
    {k \in DOMAIN patch : IsUpper(k) /\ (k \notin DOMAIN ov \/ ov[k] # patch[k])}

\* set_overrides lines 52-57: _overrides after the loop
SetOverrides(ov, patch) ==
    [k \in DOMAIN ov \cup Changes(ov, patch) |->
        IF k \in Changes(ov, patch) THEN patch[k] ELSE ov[k]]

\* _save; written: the file could be written (any exception is swallowed)
Save(ov, file, written) ==
    IF written THEN [exists |-> TRUE, parsed |-> "dict", data |-> ov] ELSE file

\* _load: the dict bound to _overrides (empty when the object is no dict)
Load(file) == IF file.exists /\ file.parsed = "dict" THEN file.data ELSE EmptyMap

\* _load: the type of the object bound to _overrides (line 23 binds whatever
\* json.load returned, line 25 binds {} after an exception)
LoadType(file) ==
    IF file.exists /\ file.parsed # "error" THEN file.parsed ELSE "dict"

\* ConfigManager.set_overrides(patch), also called by a producer thread
\* (PATCH /api/config) while Controller.run is alive
CfgSetOverrides(patch, written) ==
    /\ pc \in {"config", "top", "drain"}
    /\ IF SetOverridesRaises(overrides_type, patch)
       THEN /\ written
            /\ cfg_last' = CfgLast("set", patch, TRUE)
            /\ UNCHANGED <<overrides, persisted>>
       ELSE /\ Changes(overrides, patch) = {} => written
            /\ overrides' = SetOverrides(overrides, patch)
            /\ persisted' = IF Changes(overrides, patch) # {}
                            THEN Save(overrides', persisted, written)
                            ELSE persisted
            /\ cfg_last' = CfgLast("set", patch, FALSE)
    /\ UNCHANGED <<pc, ctlvars, polvars, fn, overrides_type, cfg_get, pmvars, hubvars>>

\* ConfigManager.clear_overrides()
CfgClearOverrides(written) ==
    /\ pc = "config"
    /\ IF ClearOverridesRaises(overrides_type)
       THEN /\ written
            /\ cfg_last' = CfgLast("clear", EmptyMap, TRUE)
            /\ UNCHANGED <<overrides, persisted>>
       ELSE /\ overrides = EmptyMap => written
            /\ overrides' = EmptyMap
            /\ persisted' = IF overrides # EmptyMap
                            THEN Save(EmptyMap, persisted, written)
                            ELSE persisted
            /\ cfg_last' = CfgLast("clear", EmptyMap, FALSE)
    /\ UNCHANGED <<pc, ctlvars, polvars, fn, overrides_type, cfg_get, pmvars, hubvars>>

\* ConfigManager.get_effective()
CfgGetEffective ==
    /\ pc = "config"
    /\ cfg_last' = CfgLast("get_effective", EmptyMap, GetEffectiveRaises(overrides_type))
    /\ UNCHANGED <<pc, ctlvars, polvars, fn, overrides, overrides_type, cfg_get,
                   persisted, pmvars, hubvars>>

\* ConfigManager.snapshot()
CfgSnapshot ==
    /\ pc = "config"
    /\ cfg_last' = CfgLast("snapshot", EmptyMap, GetEffectiveRaises(overrides_type))
    /\ UNCHANGED <<pc, ctlvars, polvars, fn, overrides, overrides_type, cfg_get,
                   persisted, pmvars, hubvars>>

\* ConfigManager.get(key), line 44: the membership test.  The call returns
\* here unless the key was found in a dict
CfgGetCheck(key) ==
    /\ pc = "config"
    /\ cfg_get.pc \in {"idle", "done"}
    /\ cfg_get' =
         IF GetRaises(overrides_type)
         THEN [pc |-> "done", key |-> key, before |-> 0, ret |-> 0, raised |-> TRUE]
         ELSE IF key \in DOMAIN overrides
         THEN [pc |-> "found", key |-> key, before |-> overrides[key], ret |-> 0,
               raised |-> FALSE]
         ELSE [pc |-> "done", key |-> key, before |-> Get(overrides, key, 0),
               ret |-> Get(overrides, key, 0), raised |-> FALSE]
    /\ UNCHANGED <<pc, ctlvars, polvars, fn, overrides, overrides_type, persisted,
                   cfg_last, pmvars, hubvars>>

\* ConfigManager.get(key), line 45: the subscript, on whatever dict is bound
\* to _overrides by now (KeyError when the key is gone)
CfgGetLookup ==
    /\ pc = "config"
    /\ cfg_get.pc = "found"
    /\ cfg_get' =
         IF cfg_get.key \in DOMAIN overrides
         THEN [cfg_get EXCEPT !.pc = "done", !.ret = overrides[cfg_get.key]]
         ELSE [cfg_get EXCEPT !.pc = "done", !.raised = TRUE]
    /\ UNCHANGED <<pc, ctlvars, polvars, fn, overrides, overrides_type, persisted,
                   cfg_last, pmvars, hubvars>>

\* a restart: ConfigManager.__init__ runs _load
CfgLoad ==
    /\ pc = "config"
    /\ overrides' = Load(persisted)
    /\ overrides_type' = LoadType(persisted)
    /\ cfg_get' = NoGet
    /\ cfg_last' = CfgLast("load", EmptyMap, FALSE)
    /\ UNCHANGED <<pc, ctlvars, polvars, fn, persisted, pmvars, hubvars>>

\* override files found at startup
InitFiles ==
    {NoFile, [exists |-> TRUE, parsed |-> "dict", data |-> EmptyMap],
     [exists |-> TRUE, parsed |-> "dict", data |-> [k \in {"STOP_CM"} |-> 20]]}
    \cup {[exists |-> TRUE, parsed |-> p, data |-> EmptyMap] : p \in Parsed \ {"dict"}}

InitConfig ==
    /\ Parked("config")
    /\ FnIdle /\ PMIdle /\ HubIdle
    /\ persisted \in InitFiles
    /\ overrides = Load(persisted)
    /\ overrides_type = LoadType(persisted)
    /\ cfg_get = NoGet
    /\ cfg_last = CfgLast("init", EmptyMap, FALSE)

NextConfig ==
    \/ \E patch \in Patches, written \in BOOLEAN : CfgSetOverrides(patch, written)
    \/ \E written \in BOOLEAN : CfgClearOverrides(written)
    \/ CfgGetEffective
    \/ CfgSnapshot
    \/ CfgLoad

SpecConfig == InitConfig /\ [][NextConfig]_vars

\* the patches a producer sends while the control thread reads a tunable
GetPatches == UNION {[S -> ConfigValues] : S \in {{}} \cup {{k} : k \in DefaultKeys}}

\* the control thread in get, the producers in the other operations
NextConfigGet ==
    \/ \E patch \in GetPatches, written \in BOOLEAN : CfgSetOverrides(patch, written)
    \/ \E written \in BOOLEAN : CfgClearOverrides(written)
    \/ CfgGetEffective
    \/ CfgSnapshot
    \/ \E key \in DefaultKeys : CfgGetCheck(key)
    \/ CfgGetLookup
    \/ CfgLoad

SpecConfigGet == InitConfig /\ [][NextConfigGet]_vars

\* the overrides a producer sets while the loop runs: a threshold of the
\* obstacle rule and a tick count of the recovery macro
TunedPatches == {[k \in {"STOP_CM", "BACK_TICKS"} |-> IF k = "STOP_CM" THEN 20 ELSE 2]}

\* readings below STOP_CM, between STOP_CM and its override, at CLEAR_CM
TunedReadings == {10, 18, 30}

\* the loop with a Policy, its tunables overridden while it runs
InitTuned == Init /\ policy = "Policy"

NextTuned ==
    \/ Step(CoreCommands, TunedReadings)
    \/ PolicyStep(Readings)
    \/ \E patch \in TunedPatches : CfgSetOverrides(patch, TRUE)

SpecTuned == (InitTuned \/ InitPolicy) /\ [][NextTuned]_vars

----------------------------------------------------------------------------
(* PolicyManager (firmware/policy_manager.py).  The stored code is known by *)
(* what it defines; the default policy object it holds is pol.             *)

\* payloads that satisfy the policy contract: the class form, a lone function
ValidPayloads == {"class_ok", "function_ok"}

\* payloads that do not: nothing usable, a Policy class with no decision
\* operation, a decision operation that raises or answers in a wrong shape
InvalidPayloads ==
    {"nothing", "syntax_error", "class_no_decision", "class_raises",
     "class_bad_shape", "function_raises", "function_bad_shape"}

Payloads == ValidPayloads \cup InvalidPayloads

\* whether the module defines a Policy attribute
DefinesPolicy(payload) ==
    payload \in {"class_ok", "class_no_decision", "class_raises", "class_bad_shape"}

\* whether the module defines a callable decide_next_motion
DefinesFunction(payload) ==
    payload \in {"function_ok", "function_raises", "function_bad_shape"}

\* answers of an uploaded policy
CustomAnswers ==
    {[motion |-> "forward", speed |-> FORWARD_SPD, is_recovery |-> FALSE, qlen |-> 0],
     [motion |-> "backward", speed |-> BACK_SPD, is_recovery |-> TRUE, qlen |-> 1]}

\* a result that is no (motion, speed, notes, is_recovery) tuple
BadShape == [motion |-> "bad_shape", speed |-> 0, is_recovery |-> FALSE]

\* line 75: the answer to a policy fault
SafeStop == [motion |-> "stop", speed |-> 0, is_recovery |-> FALSE]

\* a reload that names every uploaded policy custom
ReloadOneName(p) ==
    IF p.storage = "none"
    THEN [p EXCEPT !.active = "default", !.active_name = "default", !.last_error = "None"]
    ELSE IF DefinesPolicy(p.storage) \/ DefinesFunction(p.storage)
    THEN [p EXCEPT !.active = p.storage, !.active_name = "custom", !.last_error = "None"]
    ELSE [p EXCEPT !.active = "default", !.active_name = "default",
                   !.last_error = "load_error"]

\* PolicyManager.reload
Reload(p) ==
    IF p.storage = "none"
    THEN [p EXCEPT !.active = "default", !.active_name = "default", !.last_error = "None"]
    ELSE IF p.storage = "syntax_error"
    THEN [p EXCEPT !.active = "default", !.active_name = "default",
                   !.last_error = "load_error"]
    ELSE IF DefinesPolicy(p.storage)
    THEN [p EXCEPT !.active = p.storage, !.active_name = "custom", !.last_error = "None"]
    ELSE IF DefinesFunction(p.storage)
    THEN [p EXCEPT !.active = p.storage, !.active_name = "custom_legacy",
                   !.last_error = "None"]
    ELSE [p EXCEPT !.active = "default", !.active_name = "default",
                   !.last_error = "load_error"]

\* lines 69-75: the except branch of get_next_action
RevertToDefault(p) ==
    [p EXCEPT !.active = "default", !.active_name = "default",
              !.last_error = "active_policy_error"]

\* whether the active policy's call at lines 63-68 raises
ActiveRaises(active) ==
    active \in {"class_no_decision", "class_raises", "function_raises",
                "function_bad_shape"}

\* what an active uploaded policy returns through lines 63-64
CustomResult(active, custom) ==
    IF active = "class_bad_shape" THEN BadShape
    ELSE IF active = "class_ok"
    THEN [motion |-> custom.motion, speed |-> custom.speed,
          is_recovery |-> custom.is_recovery]
    ELSE [motion |-> custom.motion, speed |-> custom.speed, is_recovery |-> FALSE]

\* PolicyManager.set_code; written: the file could be written
PMSetCode(payload, written) ==
    /\ pc = "pm"
    /\ IF written
       THEN /\ pm' = Reload([pm EXCEPT !.storage = payload])
            /\ pol' = PolInit
       ELSE UNCHANGED <<pm, pol>>
    /\ pm_last' = PMLast("set_code", ~written, NoRet)
    /\ UNCHANGED <<pc, ctlvars, pol_last, fn, cfgvars, hubvars>>

\* PolicyManager.reload
PMReload ==
    /\ pc = "pm"
    /\ pm' = Reload(pm)
    /\ pol' = PolInit
    /\ pm_last' = PMLast("reload", FALSE, NoRet)
    /\ UNCHANGED <<pc, ctlvars, pol_last, fn, cfgvars, hubvars>>

\* PolicyManager.delete_custom; removed: os.remove succeeded
PMDeleteCustom(removed) ==
    /\ pc = "pm"
    /\ pm.storage = "none" => removed
    /\ pm' = Reload([pm EXCEPT !.storage = IF removed THEN "none" ELSE @])
    /\ pol' = PolInit
    /\ pm_last' = PMLast("delete_custom", FALSE, NoRet)
    /\ UNCHANGED <<pc, ctlvars, pol_last, fn, cfgvars, hubvars>>

\* PolicyManager.update_distance
PMUpdateDistance(d) ==
    /\ pc = "pm"
    /\ (pm.active = "default" /\ d = Inf) => pol.consecutive_no_echo < MaxNoEcho
    /\ pol' = IF pm.active = "default" THEN UpdateDistance(pol, d) ELSE pol
    /\ pm_last' = PMLast("update_distance", FALSE, NoRet)
    /\ UNCHANGED <<pc, ctlvars, pol_last, pm, fn, cfgvars, hubvars>>

\* PolicyManager.get_next_action
PMGetNextAction(prev_motion, d, dir, turn_dir, custom) ==
    /\ pc = "pm"
    /\ IF pm.active = "default"
       THEN LET r == GetNextAction(pol, prev_motion, d, dir, turn_dir)
            IN  /\ pol.queued_moves = <<>> => DrawsDirection(d, dir)
                /\ pol.queued_moves # <<>> => dir = "left"
                /\ DrawsTurn(r.kind = "trigger", turn_dir)
                /\ custom.qlen = 0
                /\ pol' = r.pol
                /\ pm_last' = PMLast("get_next_action", FALSE, r.ret)
                /\ UNCHANGED pm
       ELSE /\ dir = "left" /\ turn_dir = "left"
            /\ IF ActiveRaises(pm.active)
               THEN /\ custom.qlen = 0
                    /\ pm' = RevertToDefault(pm)
                    /\ pol' = PolInit
                    /\ pm_last' = PMLast("get_next_action", FALSE, SafeStop)
               ELSE /\ pm.active = "class_bad_shape" => custom.qlen = 0
                    /\ pm_last' = PMLast("get_next_action", FALSE,
                                         CustomResult(pm.active, custom))
                    /\ UNCHANGED <<pm, pol>>
    /\ UNCHANGED <<pc, ctlvars, pol_last, fn, cfgvars, hubvars>>

\* PolicyManager.is_stuck_triggered
PMIsStuckTriggered(custom) ==
    /\ pc = "pm"
    /\ pm.active # "class_ok" => custom.qlen = 0
    /\ pm_last' = PMLast("is_stuck_triggered", FALSE,
                         IF pm.active = "default" THEN pol.queued_moves # <<>>
                         ELSE IF pm.active = "class_ok" THEN custom.is_recovery
                         ELSE FALSE)
    /\ UNCHANGED <<pc, ctlvars, polvars, pm, fn, cfgvars, hubvars>>

\* PolicyManager.get_queue_length
PMGetQueueLength(custom) ==
    /\ pc = "pm"
    /\ pm.active # "class_ok" => custom.qlen = 0
    /\ pm_last' = PMLast("get_queue_length", FALSE,
                         IF pm.active = "default" THEN Len(pol.queued_moves)
                         ELSE IF pm.active = "class_ok" THEN custom.qlen
                         ELSE 0)
    /\ UNCHANGED <<pc, ctlvars, polvars, pm, fn, cfgvars, hubvars>>

\* PolicyManager.__init__ runs reload() on whatever code is stored
InitPM ==
    /\ Parked("pm")
    /\ FnIdle /\ CfgIdle /\ HubIdle
    /\ \E s \in {"none"} \cup Payloads : pm = Reload([PMInit EXCEPT !.storage = s])
    /\ pm_last = PMLast("init", FALSE, NoRet)

NextPM ==
    \/ \E payload \in Payloads, written \in BOOLEAN : PMSetCode(payload, written)
    \/ PMReload
    \/ \E removed \in BOOLEAN : PMDeleteCustom(removed)
    \/ \E d \in CmdReadings : PMUpdateDistance(d)
    \/ \E prev_motion \in Motions \cup {"stop"}, d \in CmdReadings, dir \in Turns,
          turn_dir \in Turns, custom \in CustomAnswers :
          PMGetNextAction(prev_motion, d, dir, turn_dir, custom)
    \/ \E custom \in CustomAnswers : PMIsStuckTriggered(custom)
    \/ \E custom \in CustomAnswers : PMGetQueueLength(custom)

SpecPM == InitPM /\ [][NextPM]_vars

----------------------------------------------------------------------------
(* DashboardHub (firmware/web/sse.py) and its /api/events subscribers      *)
(* (firmware/web/server.py).  A state and its JSON text are one value.     *)

Snapshots == {"snap_a", "snap_b"}

\* DashboardHub.broadcast: put on the queue of every registered client
Broadcast(h, data) ==
    [h EXCEPT !.clients = [c \in 1..MaxClients |->
        IF h.clients[c].subscribed
        THEN [h.clients[c] EXCEPT !.queue = Append(@, data)]
        ELSE h.clients[c]]]

\* server.py 209-210: a GET /api/events registers a new client
HubAddClient(c) ==
    /\ pc = "hub"
    /\ ~hub.clients[c].subscribed
    /\ hub' = [hub EXCEPT !.clients[c] = [subscribed |-> TRUE, queue |-> <<>>]]
    /\ hub_last' = HubLast("add_client", hub_last.published, "None")
    /\ UNCHANGED <<pc, ctlvars, polvars, fn, cfgvars, pmvars>>

\* server.py 228-230: the connection ends, the client is removed
HubRemoveClient(c) ==
    /\ pc = "hub"
    /\ hub.clients[c].subscribed
    /\ hub' = [hub EXCEPT !.clients[c] = NoClient]
    /\ hub_last' = HubLast("remove_client", hub_last.published, "None")
    /\ UNCHANGED <<pc, ctlvars, polvars, fn, cfgvars, pmvars>>

\* DashboardHub.broadcast(data)
HubBroadcast(data) ==
    /\ pc = "hub"
    /\ \A c \in 1..MaxClients : Len(hub.clients[c].queue) < MaxBacklog
    /\ hub' = Broadcast(hub, data)
    /\ hub_last' = HubLast("broadcast", data, "None")
    /\ UNCHANGED <<pc, ctlvars, polvars, fn, cfgvars, pmvars>>

\* DashboardHub.set_state(state)
HubSetState(state) ==
    /\ pc = "hub"
    /\ \A c \in 1..MaxClients : Len(hub.clients[c].queue) < MaxBacklog
    /\ hub' = Broadcast([hub EXCEPT !.last_state = state], state)
    /\ hub_last' = HubLast("set_state", state, "None")
    /\ UNCHANGED <<pc, ctlvars, polvars, fn, cfgvars, pmvars>>

\* server.py 214-219: the subscriber takes the next message off its queue
HubClientGet(c) ==
    /\ pc = "hub"
    /\ hub.clients[c].subscribed
    /\ hub.clients[c].queue # <<>>
    /\ hub' = [hub EXCEPT !.clients[c].queue = Tail(@)]
    /\ hub_last' = HubLast("client_get", hub_last.published, Head(hub.clients[c].queue))
    /\ UNCHANGED <<pc, ctlvars, polvars, fn, cfgvars, pmvars>>

\* DashboardHub.get_state() (GET /api/status)
HubGetState ==
    /\ pc = "hub"
    /\ hub_last' = HubLast("get_state", hub_last.published, hub.last_state)
    /\ UNCHANGED <<pc, ctlvars, polvars, fn, cfgvars, pmvars, hub>>

InitHub == Parked("hub") /\ FnIdle /\ CfgIdle /\ PMIdle /\ HubIdle

NextHub ==
    \/ \E c \in 1..MaxClients : HubAddClient(c)
    \/ \E c \in 1..MaxClients : HubRemoveClient(c)
    \/ \E data \in Snapshots : HubBroadcast(data)
    \/ \E state \in Snapshots : HubSetState(state)
    \/ \E c \in 1..MaxClients : HubClientGet(c)
    \/ HubGetState

SpecHub == InitHub /\ [][NextHub]_vars

----------------------------------------------------------------------------
(* Steps of the control thread, as seen from a pair of states *)

\* the drain loop takes the head of commands_q
DrainsCommand == pc = "drain" /\ commands_q # <<>> /\ commands_q' = Tail(commands_q)

\* an AUTO iteration runs to its end
AutoTickCompletes ==
    pc = "drain" /\ commands_q = <<>> /\ auto_mode /\ ~emergency_stopped /\ pc' = "top"

\* an AUTO iteration is left by an exception
AutoTickRaises ==
    pc = "drain" /\ commands_q = <<>> /\ auto_mode /\ ~emergency_stopped /\ pc' = "crashed"

\* the queued-move branch (lines 212-272) ran to its continue
QueuedTickCompletes == pc = "top" /\ queued_moves # <<>> /\ queued_moves' # queued_moves

\* the REMOTE branch with a queued move (lines 391-437) ran to its continue
RemoteExecCompletes ==
    /\ pc = "drain" /\ commands_q = <<>> /\ ~auto_mode /\ ~emergency_stopped
    /\ queued_moves # <<>> /\ pc' = "top"

\* the AUTO iteration that triggered the recovery ran to its end
TriggerTickCompletes == AutoTickCompletes /\ snapshot'.stuck = 1

ToggleOrAuto(c) == (c.form = "str" \/ c.type = "cmd") /\ c.name \in {"toggle", "auto"}

ModeChanging(c) == ToggleOrAuto(c) \/ (c.form = "dict" /\ c.type = "mode")

KnownNames == {"toggle", "auto", "stop"} \cup Motions

\* unknown type or name, missing field, or a speed/duration that is no number
Malformed(c) ==
    IF c.form = "str" THEN c.name \notin KnownNames
    ELSE IF c.type = "mode" THEN c.mode \notin {"AUTO", "REMOTE", "MANUAL"}
    ELSE IF c.type = "cmd"
    THEN c.name \notin KnownNames \/ c.speedk = "bad"
         \/ c.duration_ms = "bad" \/ c.duration_s = "bad"
    ELSE TRUE

RECURSIVE TotalTicks(_)
TotalTicks(q) == IF q = <<>> THEN 0 ELSE q[1].ticks + TotalTicks(Tail(q))

----------------------------------------------------------------------------
(* Claims *)

\* C1: while emergency_stopped, a step of the controller that does not
\* process a toggle/auto/mode command commands no motion and changes neither
\* auto_mode nor emergency_stopped.
C1_EmergencyStopSticky ==
    [][(emergency_stopped /\ ~(DrainsCommand /\ ModeChanging(Head(commands_q))))
        => (actuated'.motion \notin Motions
            /\ auto_mode' = auto_mode
            /\ emergency_stopped')]_vars

\* C2: once a stop command waits in commands_q, at most one more motion is
\* executed before that stop is processed.
C2_StopWithinOneExecution == stop_execs <= 1

\* C3: from EmergencyStopped, processing a command clears emergency_stopped
\* exactly when the command is toggle or auto, in the legacy or the
\* structured form.
C3_ToggleAutoClear ==
    [][(emergency_stopped /\ DrainsCommand /\ pc' = "drain")
        => (~emergency_stopped' <=> ToggleOrAuto(Head(commands_q)))]_vars

\* C4: processing a stop command yields, from every state, an empty queue,
\* current motion stop at speed 0, emergency_stopped set and auto_mode as it
\* was (so that a second stop changes nothing).
C4_StopYieldsStoppedState ==
    [][(DrainsCommand /\ IsStop(Head(commands_q)))
        => (queued_moves' = <<>>
            /\ current_motion' = "stop"
            /\ current_speed' = 0
            /\ emergency_stopped'
            /\ auto_mode' = auto_mode)]_vars

\* C5: an exception of the actuator during execute_motion never ends run().
C5_ActuatorFaultKeepsLoop == crash_cause # "execute_motion"

\* C6: an exception raised where the controller invokes the policy never
\* ends run().
C6_PolicyFaultContained == crash_cause # "policy"

\* C7: processing a malformed command leaves mode, queue, emergency flag and
\* current motion as they were, and the loop goes on.
C7_MalformedDropped ==
    [][(DrainsCommand /\ Malformed(Head(commands_q)))
        => (pc' = "drain"
            /\ auto_mode' = auto_mode
            /\ emergency_stopped' = emergency_stopped
            /\ queued_moves' = queued_moves
            /\ current_motion' = current_motion
            /\ current_speed' = current_speed)]_vars

\* C8: an AUTO iteration that starts with cooldown 0, a history of exactly
\* STUCK_STEPS readings with spread below STUCK_DELTA_CM and a decision in
\* {forward, backward} sets the queue to [backward x BACK_TICKS at BACK_SPD,
\* one turn x NUDGE_TICKS at TURN_SPD] and publishes stuck = 1.
C8_StuckFiresWithMacro ==
    (last.kind \in {"auto", "crash"} /\ last.cond /\ last.cd = 0)
    => /\ \E t \in Turns :
            queued_moves = <<[motion |-> "backward", speed |-> BACK_SPD, ticks |-> BACK_TICKS],
                             [motion |-> t, speed |-> TURN_SPD, ticks |-> NUDGE_TICKS]>>
       /\ TotalTicks(queued_moves) = BACK_TICKS + NUDGE_TICKS
       /\ last.kind = "auto" => snapshot.stuck = 1

C8_Witness ==
    /\ last.kind = "auto" /\ last.cond /\ last.cd = 0
    /\ snapshot.stuck = 1
    /\ Len(queued_moves) = 2

\* C9: when the AUTO iteration in which stuck detection fired has completed,
\* stuck_cooldown equals STUCK_COOLDOWN_STEPS.
C9_CooldownAfterTrigger ==
    (last.kind = "auto" /\ snapshot.stuck = 1) => stuck_cooldown = STUCK_COOLDOWN_STEPS

\* C10: an iteration that starts with cooldown > 0 triggers nothing: the
\* controller's queue is left as it is and stuck = 0 is published;
\* Policy.get_next_action enqueues no macro and does not re-arm the cooldown,
\* under the spread rule and the no-echo rule alike.
C10_NoTriggerDuringCooldown ==
    [][/\ ((AutoTickCompletes \/ AutoTickRaises) /\ stuck_cooldown > 0)
            => queued_moves' = queued_moves
       /\ (AutoTickCompletes /\ stuck_cooldown > 0) => snapshot'.stuck = 0
       /\ (pc = "policy" /\ pol.stuck_cooldown > 0)
            => /\ TotalTicks(pol'.queued_moves) <= TotalTicks(pol.queued_moves)
               /\ pol'.stuck_cooldown <= pol.stuck_cooldown]_vars

C10_Witness ==
    /\ last.kind = "auto" /\ last.cd > 0 /\ last.cond
    /\ snapshot.stuck = 0
    /\ queued_moves = <<>>

\* C11: is_robot_stuck reports stuck exactly when the history holds
\* STUCK_STEPS readings, next_motion is forward or backward and every two
\* readings differ by less than STUCK_DELTA_CM; the cooldown it returns is
\* STUCK_COOLDOWN_STEPS when stuck and 0 otherwise.
C11_IsRobotStuckIff ==
    fn.op = "is_robot_stuck"
    => /\ fn.out.stuck <=>
            /\ Len(fn.hist) = STUCK_STEPS
            /\ fn.next_motion \in {"forward", "backward"}
            /\ \A i, j \in 1..Len(fn.hist) : fn.hist[i] - fn.hist[j] < STUCK_DELTA_CM
       /\ fn.out.cooldown = IF fn.out.stuck THEN STUCK_COOLDOWN_STEPS ELSE 0

C11_Witness ==
    /\ fn.op = "is_robot_stuck"
    /\ fn.out.stuck
    /\ fn.next_motion = "backward"
    /\ \E i, j \in 1..Len(fn.hist) : fn.hist[i] - fn.hist[j] = STUCK_DELTA_CM - 1

\* C13: for a valid reading d <= STOP_CM and any previous motion,
\* decide_next_motion returns left or right at TURN_SPD.
C13_ObstacleTurns ==
    (fn.op = "decide_next_motion" /\ fn.d # Inf /\ fn.d <= STOP_CM)
    => (fn.out.motion \in {"left", "right"} /\ fn.out.speed = TURN_SPD)

C13_Witness ==
    /\ fn.op = "decide_next_motion"
    /\ fn.d = STOP_CM
    /\ fn.prev_motion = "forward"
    /\ fn.out.motion = "right"

\* C14 as stated: for every reading d >= CLEAR_CM decide_next_motion returns
\* forward at FORWARD_SPD.
C14_ClearForward ==
    (fn.op = "decide_next_motion" /\ fn.d >= CLEAR_CM)
    => (fn.out.motion = "forward" /\ fn.out.speed = FORWARD_SPD)

\* C14 amended: for every reading d >= CLEAR_CM other than the no-echo
\* sentinel, decide_next_motion returns forward at FORWARD_SPD.
C14_ClearForwardValid ==
    (fn.op = "decide_next_motion" /\ fn.d # Inf /\ fn.d >= CLEAR_CM)
    => (fn.out.motion = "forward" /\ fn.out.speed = FORWARD_SPD)

C14_Witness ==
    /\ fn.op = "decide_next_motion"
    /\ fn.d = CLEAR_CM
    /\ fn.prev_motion = "left"
    /\ fn.out.motion = "forward"
    /\ fn.out.speed = FORWARD_SPD

\* C15: decide_next_motion is the first match of: sentinel -> stop at 0;
\* d <= STOP_CM -> a turn at TURN_SPD; d >= CLEAR_CM -> forward at
\* FORWARD_SPD; previous motion a turn -> that turn at 80% of TURN_SPD;
\* otherwise forward at 80% of FORWARD_SPD.
C15_FirstMatch ==
    fn.op = "decide_next_motion"
    => /\ fn.d = Inf => (fn.out.motion = "stop" /\ fn.out.speed = 0)
       /\ (fn.d # Inf /\ fn.d <= STOP_CM)
            => (fn.out.motion \in {"left", "right"} /\ fn.out.speed = TURN_SPD)
       /\ (fn.d # Inf /\ fn.d > STOP_CM /\ fn.d >= CLEAR_CM)
            => (fn.out.motion = "forward" /\ fn.out.speed = FORWARD_SPD)
       /\ (fn.d > STOP_CM /\ fn.d < CLEAR_CM /\ fn.prev_motion \in {"left", "right"})
            => (fn.out.motion = fn.prev_motion /\ 10 * fn.out.speed = 8 * TURN_SPD)
       /\ (fn.d > STOP_CM /\ fn.d < CLEAR_CM /\ fn.prev_motion \notin {"left", "right"})
            => (fn.out.motion = "forward" /\ 10 * fn.out.speed = 8 * FORWARD_SPD)

C15_Witness ==
    /\ fn.op = "decide_next_motion"
    /\ fn.d > STOP_CM /\ fn.d < CLEAR_CM
    /\ fn.prev_motion = "right"
    /\ fn.out.motion = "right"
    /\ 10 * fn.out.speed = 8 * TURN_SPD

\* C12: a get_next_action call on a Policy whose no-echo count has reached
\* STUCK_STEPS, with cooldown 0 and an empty queue, returns the first
\* backward move of the recovery macro as a recovery move and leaves the
\* rest of the macro queued, whatever the history and the reading; every
\* update_distance with the sentinel adds one to the count and every
\* update_distance with a valid reading resets it to 0.
C12_NoEchoRecovery ==
    [][pc = "policy"
        => /\ (/\ pol_last'.kind # "update"
               /\ pol.consecutive_no_echo >= STUCK_STEPS
               /\ pol.stuck_cooldown = 0
               /\ pol.queued_moves = <<>>)
                => /\ pol_last'.ret = [motion |-> "backward", speed |-> BACK_SPD,
                                       is_recovery |-> TRUE]
                   /\ \E t \in Turns :
                        pol'.queued_moves =
                            (IF BACK_TICKS > 1
                             THEN <<[motion |-> "backward", speed |-> BACK_SPD,
                                     ticks |-> BACK_TICKS - 1]>>
                             ELSE <<>>)
                            \o <<[motion |-> t, speed |-> TURN_SPD, ticks |-> NUDGE_TICKS]>>
           /\ (pol_last'.kind = "update" /\ pol' # pol /\ pol_last'.reading = Inf)
                => pol'.consecutive_no_echo = pol.consecutive_no_echo + 1
           /\ (pol_last'.kind = "update" /\ pol_last' # pol_last /\ pol_last'.reading # Inf)
                => pol'.consecutive_no_echo = 0]_vars

C12_Witness ==
    /\ pc = "policy"
    /\ pol_last.kind = "trigger"
    /\ pol.dist_hist = <<>>
    /\ pol_last.ret.motion = "backward" /\ pol_last.ret.is_recovery
    /\ Len(pol.queued_moves) = 1

\* C16: for a key K of the defaults, get(K) returns V after
\* set_overrides({K: V}) and the compiled default after clear_overrides(),
\* and in every state get(K) equals get_effective()[K].
C16_ConfigRoundTrip ==
    /\ cfg_last.op = "set"
        => \A K \in DOMAIN cfg_last.patch \cap DefaultKeys :
                /\ ~cfg_last.raised /\ ~GetRaises(overrides_type)
                /\ Get(overrides, K, 0) = cfg_last.patch[K]
    /\ cfg_last.op = "clear"
        => \A K \in DefaultKeys :
                /\ ~cfg_last.raised /\ ~GetRaises(overrides_type)
                /\ Get(overrides, K, 0) = Defaults[K]
    /\ \A K \in DefaultKeys :
            /\ ~GetRaises(overrides_type) /\ ~GetEffectiveRaises(overrides_type)
            /\ Get(overrides, K, 0) = GetEffective(overrides)[K]

\* C17: every key of the overrides, and of the file they are saved to, is a
\* key of the compiled defaults.
C17_OnlyKnownKeys ==
    /\ DOMAIN overrides \subseteq DefaultKeys
    /\ DOMAIN persisted.data \subseteq DefaultKeys
    /\ DOMAIN GetEffective(overrides) = DefaultKeys

\* C18: after a set_code or reload that found a payload not satisfying the
\* policy contract, the active name is default, the active policy is the
\* built-in one and last error is not empty.
C18_InvalidPayloadRejected ==
    (pm_last.op \in {"set_code", "reload"} /\ ~pm_last.raised
     /\ pm.storage \in InvalidPayloads)
    => (pm.active_name = "default" /\ pm.active = "default" /\ pm.last_error # "None")

\* C19: after a set_code or reload that found a valid payload, that payload
\* is the active policy and last error is empty; the class form is named
\* custom, the function form custom_legacy; the wrapped function form never
\* answers with a recovery move, a stuck flag or a queue length above 0.
C19_ValidPayloadActive ==
    /\ (pm_last.op \in {"set_code", "reload"} /\ ~pm_last.raised
        /\ pm.storage = "class_ok")
        => (pm.active = "class_ok" /\ pm.active_name = "custom"
            /\ pm.last_error = "None")
    /\ (pm_last.op \in {"set_code", "reload"} /\ ~pm_last.raised
        /\ pm.storage = "function_ok")
        => (pm.active = "function_ok" /\ pm.active_name = "custom_legacy"
            /\ pm.last_error = "None")
    /\ (pm.active = "function_ok" /\ pm_last.op = "get_next_action")
        => ~pm_last.ret.is_recovery
    /\ (pm.active = "function_ok" /\ pm_last.op = "is_stuck_triggered")
        => pm_last.ret = FALSE
    /\ (pm.active = "function_ok" /\ pm_last.op = "get_queue_length")
        => pm_last.ret = 0

C19_Witness ==
    /\ pm.storage = "function_ok"
    /\ pm.active_name = "custom_legacy"
    /\ pm_last.op = "get_next_action"
    /\ pm_last.ret.motion = "forward"
    /\ pm.last_error = "None"

\* C20: the hub holds no backlog for a subscriber: no client has more than
\* one message waiting, and the message a subscriber reads is the one
\* published last.
C20_NoBacklog ==
    /\ \A c \in 1..MaxClients : Len(hub.clients[c].queue) <= 1
    /\ hub_last.op = "client_get" => hub_last.read = hub_last.published

\* the override file is missing, unreadable, not JSON, or JSON that is not
\* a mapping
BadFile(file) == ~file.exists \/ file.parsed # "dict"

\* C21: with a missing, unreadable, unparseable or non-mapping override file
\* and no override written since startup, get returns the compiled default
\* of its key and get, get_effective and snapshot do not raise.
C21_StartupTolerant ==
    [][(BadFile(persisted) /\ overrides = EmptyMap)
       => /\ (cfg_get' # cfg_get /\ cfg_get.pc # "found" /\ cfg_get'.pc = "done")
                => (~cfg_get'.raised /\ cfg_get'.ret = Defaults[cfg_get'.key])
          /\ (cfg_last' # cfg_last /\ cfg_last'.op \in {"get_effective", "snapshot"})
                => ~cfg_last'.raised]_vars

\* a step in which a ConfigManager.get call returns or raises
GetReturns == cfg_get' # cfg_get /\ cfg_get'.pc = "done"

\* C22: a get(K) on a dict of overrides, interleaved with set_overrides and
\* clear_overrides, does not raise, and returns the value of K in force when
\* it began or the value in force when it returns.
C22_GetRaceFree ==
    [][(GetReturns /\ overrides_type = "dict")
       => /\ ~cfg_get'.raised
          /\ cfg_get'.ret \in {cfg_get'.before, Get(overrides', cfg_get'.key, 0)}]_vars

\* C23 (for STOP_CM): an Auto tick that reads a distance at or below the
\* effective STOP_CM and triggers no recovery decides a turn.
C23_EffectiveStopCm ==
    [][(AutoTickCompletes /\ policy = "Policy" /\ snapshot'.stuck = 0
        /\ last'.reading <= Cfg("STOP_CM", STOP_CM))
       => current_motion' \in Turns]_vars

\* C24: with a Policy, every tick executed in Auto mode, a tick that runs a
\* recovery macro move included, calls the policy's decision.
C24_PolicyEveryTick ==
    [][(auto_mode /\ policy = "Policy" /\ (QueuedTickCompletes \/ AutoTickCompletes))
       => last'.decided]_vars

\* C25: a tick that finds the queue non-empty actuates the head's motion and
\* speed, decrements the head's ticks and pops it at zero, leaving the moves
\* behind it untouched; queued ticks follow one another with no other branch
\* of the loop between them; every queued move has at least one tick left,
\* so the ticks left in the queue go down by exactly one per tick.
C25_QueueConsumedInOrder ==
    [][/\ (QueuedTickCompletes \/ RemoteExecCompletes
           \/ (AutoTickCompletes /\ queued_moves # <<>>))
          => /\ actuated' = [motion |-> queued_moves[1].motion,
                             speed |-> queued_moves[1].speed]
             /\ queued_moves' =
                  IF queued_moves[1].ticks > 1
                  THEN <<[queued_moves[1] EXCEPT !.ticks = @ - 1]>> \o Tail(queued_moves)
                  ELSE Tail(queued_moves)
             /\ TotalTicks(queued_moves') = TotalTicks(queued_moves) - 1
       /\ (pc = "top" /\ queued_moves # <<>>) => pc' \in {"top", "crashed"}
       /\ \A i \in 1..Len(queued_moves') : queued_moves'[i].ticks >= 1]_vars

\* a backward move overridden to two ticks has run its first tick
C25_Witness ==
    /\ last.kind = "queued"
    /\ actuated = [motion |-> "backward", speed |-> BACK_SPD]
    /\ Len(queued_moves) = 2
    /\ queued_moves[1] = [motion |-> "backward", speed |-> BACK_SPD, ticks |-> 1]
    /\ queued_moves[2].motion \in Turns

\* C26: the tick in which stuck detection fires sets the decided motion to
\* forward at FORWARD_SPD and does not command the actuator forward.
C26_ForwardAfterMacro ==
    [][TriggerTickCompletes
       => /\ current_motion' = "forward" /\ current_speed' = FORWARD_SPD
          /\ actuated'.motion # "forward"]_vars

\* C27: an Auto tick with an empty queue commands the actuator the motion
\* and speed decided before the tick (stop at 0 on the first tick).
C27_ExecutesPreviousDecision ==
    [][(AutoTickCompletes /\ policy = "Policy" /\ queued_moves = <<>>)
       => actuated' = ExecuteMotion(current_motion, current_speed)]_vars

\* C28: after the tick in which stuck detection fires, the history holds
\* nothing sampled before the trigger: it is empty, or holds that tick's own
\* reading only.
C28_HistoryClearedOnTrigger ==
    [][TriggerTickCompletes
       => dist_hist' \in {<<>>, <<last'.reading>>}]_vars

C30_CooldownEveryTick ==
    [][/\ stuck_cooldown' >= 0
       /\ (stuck_cooldown > 0 /\ auto_mode /\ (QueuedTickCompletes \/ AutoTickCompletes))
          => stuck_cooldown' = stuck_cooldown - 1]_vars

\* C35: after delete_custom, from any state, and after a reload that found
\* no stored payload, the active policy is the built-in default, the active
\* name is default, no custom payload exists and last error is empty.
C35_DeleteRevertsToDefault ==
    (pm_last.op = "delete_custom" \/ (pm_last.op = "reload" /\ pm.storage = "none"))
    => (pm.active = "default" /\ pm.active_name = "default"
        /\ pm.storage = "none" /\ pm.last_error = "None")

----------------------------------------------------------------------------
(* Multi-sensor policy (firmware/control/policy_multi.py); speeds are in   *)
(* thousandths here because 0.7 x TURN_SPD has three decimals             *)

SensorNames == {"front", "left", "right"}

FrontReadings == {10, STOP_CM, 16, 23, CLEAR_CM, 31, Inf}

SideReadings == {5, 11, 23, Inf}

\* the dicts handed to decide_next_motion: any subset of the sensors present
DistanceDicts ==
    UNION {{f \in [S -> FrontReadings \cup SideReadings] :
                /\ "front" \in S => f["front"] \in FrontReadings
                /\ \A k \in S \ {"front"} : f[k] \in SideReadings} :
           S \in SUBSET SensorNames}

\* distances.get(name, float('inf'))
DistGet(distances, name) ==
    IF name \in DOMAIN distances THEN distances[name] ELSE Inf

MultiAct(m, s) == [motion |-> m, speed |-> s]

\* policy_multi.decide_next_motion; dir is the outcome of random.choice
MultiDecideNextMotion(distances, prev_motion, dir) ==
    LET front_dist == DistGet(distances, "front")
        left_dist == DistGet(distances, "left")
        right_dist == DistGet(distances, "right")
        min_side == IF left_dist < right_dist THEN left_dist ELSE right_dist
    IN  IF front_dist <= STOP_CM
        THEN IF left_dist > right_dist /\ 2 * left_dist > 3 * STOP_CM
             THEN MultiAct("left", 10 * TURN_SPD)
             ELSE IF 2 * right_dist > 3 * STOP_CM
             THEN MultiAct("right", 10 * TURN_SPD)
             ELSE IF left_dist > right_dist
             THEN MultiAct("left", 10 * TURN_SPD)
             ELSE MultiAct("right", 10 * TURN_SPD)
        ELSE IF prev_motion \in {"left", "right"} /\ 2 * front_dist > 3 * STOP_CM
        THEN MultiAct(prev_motion, 8 * TURN_SPD)
        ELSE IF 10 * left_dist < 7 * STOP_CM
        THEN MultiAct("right", 7 * TURN_SPD)
        ELSE IF 10 * right_dist < 7 * STOP_CM
        THEN MultiAct("left", 7 * TURN_SPD)
        ELSE IF front_dist > CLEAR_CM /\ 2 * min_side > 3 * STOP_CM
        THEN MultiAct("forward", 10 * FORWARD_SPD)
        ELSE IF 2 * front_dist > 3 * STOP_CM
        THEN MultiAct("forward", 7 * FORWARD_SPD)
        ELSE MultiAct(dir, 6 * TURN_SPD)

\* one call of policy_multi.decide_next_motion(distances, prev_motion)
CallMultiDecide(distances, prev_motion, dir) ==
    /\ pc = "fn"
    /\ fn = NoCall
    /\ fn' = [op |-> "multi_decide", front |-> DistGet(distances, "front"),
              left |-> DistGet(distances, "left"),
              right |-> DistGet(distances, "right"),
              given |-> DOMAIN distances, prev_motion |-> prev_motion,
              out |-> MultiDecideNextMotion(distances, prev_motion, dir)]
    /\ UNCHANGED <<pc, ctlvars, polvars, cfgvars, pmvars, hubvars>>

NextMulti ==
    \E distances \in DistanceDicts, prev_motion \in Motions \cup {"stop"},
       dir \in Turns : CallMultiDecide(distances, prev_motion, dir)

SpecMulti == InitFn /\ [][NextMulti]_vars

\* C36: for a sentinel front reading (no echo) the multi-sensor
\* decide_next_motion never returns forward, whatever the side readings and
\* the previous motion.
C36_MultiNoForwardOnNoEcho ==
    (fn.op = "multi_decide" /\ fn.front = Inf) => fn.out.motion # "forward"

\* C37: the multi-sensor decide_next_motion returns right whenever the front
\* reading is above STOP_CM and the left reading is below 0.7 x STOP_CM, and
\* left when only the right reading is that close, for every previous
\* motion.
C37_MultiSideProximity ==
    (fn.op = "multi_decide" /\ fn.front > STOP_CM)
    => /\ 10 * fn.left < 7 * STOP_CM => fn.out.motion = "right"
       /\ (10 * fn.right < 7 * STOP_CM /\ ~(10 * fn.left < 7 * STOP_CM))
            => fn.out.motion = "left"

----------------------------------------------------------------------------
(* Remote driving: the command drain with several moves accepted in one   *)
(* pass, the one reading that lets the stuck detector fire in AUTO         *)

\* moves of Remote commands waiting in queued_moves at one time
MaxRemoteQueue == 2

\* a legacy movement command and a structured one that carries a speed
\* above 1.0 and a duration_ms
RemoteCommands ==
    {Str("toggle"), Str("stop"), Str("forward"),
     Cmd("backward", "num", 250, "num", "none")}

RemoteReadings == {30}

InitRemote == Init /\ policy = "Policy"

NextRemote ==
    \/ \E c \in RemoteCommands : Produce(c)
    \/ \E fault \in BOOLEAN : QueuedTick(fault)
    \/ BeginDrain
    \/ \E fault \in BOOLEAN : DrainCommandUpTo(fault, MaxRemoteQueue)
    \/ EStopIdle
    \/ \E publish \in BOOLEAN : RemoteIdle(publish)
    \/ \E fault \in BOOLEAN : RemoteExec(fault)
    \/ \E front_d \in RemoteReadings, dir \in Turns, turn_dir \in Turns,
          fault \in BOOLEAN : AutoTick(front_d, dir, turn_dir, fault)

SpecRemote == InitRemote /\ [][NextRemote]_vars

\* a movement command, legacy or structured
MotionCommand(c) == (c.form = "str" \/ c.type = "cmd") /\ c.name \in Motions

\* the drain took a movement command in REMOTE mode and went on
AcceptsMotion ==
    DrainsCommand /\ ~auto_mode /\ MotionCommand(Head(commands_q)) /\ pc' = "drain"

\* the REMOTE idle branch (lines 356-388) ran to its continue
RemoteIdleCompletes ==
    /\ pc = "drain" /\ commands_q = <<>> /\ ~auto_mode /\ ~emergency_stopped
    /\ queued_moves = <<>> /\ pc' = "top"

\* C31: in REMOTE mode an accepted movement command appends one single-tick
\* move with its speed to the queue; a tick with a queued move commands the
\* actuator with the head of the queue and removes exactly that move; the
\* queue changes in no other way than by a stop or mode-changing command
\* emptying it; a tick with an empty queue commands no motion.
C31_RemoteQueueFifo ==
    [][/\ AcceptsMotion
            => LET c == Head(commands_q)
               IN  queued_moves' =
                     Append(queued_moves,
                            [motion |-> c.name,
                             speed |-> IF c.speedk = "num" THEN c.speed
                                       ELSE DefaultSpeed(c.name),
                             ticks |-> 1])
       /\ (~auto_mode /\ (RemoteExecCompletes \/ QueuedTickCompletes))
            => /\ actuated' = [motion |-> queued_moves[1].motion,
                               speed |-> queued_moves[1].speed]
               /\ queued_moves' = Tail(queued_moves)
       /\ (~auto_mode /\ pc' # "crashed" /\ queued_moves' # queued_moves)
            => \/ AcceptsMotion
               \/ RemoteExecCompletes
               \/ QueuedTickCompletes
               \/ /\ DrainsCommand
                  /\ IsStop(Head(commands_q)) \/ ModeChanging(Head(commands_q))
                  /\ queued_moves' = <<>>
       /\ RemoteIdleCompletes => (actuated' = NoMove /\ queued_moves' = <<>>)
      ]_vars

\* the second of two REMOTE moves was executed by the tick after the first
C31_Witness ==
    /\ ~auto_mode /\ ~emergency_stopped
    /\ last.kind = "queued"
    /\ actuated = Act("backward", 250)
    /\ snapshot.executed_motion = "backward"
    /\ queued_moves = <<>>

\* C32: a structured REMOTE movement command is actuated for the duration
\* resolved from it (duration_ms, else duration_s, else the configured tick
\* duration) and at the speed queued for it: when the drain's last step
\* accepted such a command and its move is the only one queued, the
\* execution that follows passes that duration and that speed to
\* execute_motion.
C32_RequestedDurationHonoured ==
    [][(/\ RemoteExecCompletes
        /\ last.kind = "cmd" /\ last.requested # 0
        /\ Len(queued_moves) = 1)
       => /\ last'.duration = last.requested
          /\ actuated'.speed = queued_moves[1].speed
      ]_vars

\* C33: every speed the controller commands the actuator with lies in
\* [0.0, 1.0] (0..100 hundredths), whatever commands arrive and whatever
\* the default policy decides.
C33_SpeedInUnitRange == actuated.speed >= 0 /\ actuated.speed <= 100

\* the control thread published a snapshot in this step: a queued move, a
\* REMOTE move, an AUTO iteration, a REMOTE idle report, an emergency stop
Publishes ==
    \/ QueuedTickCompletes
    \/ RemoteExecCompletes
    \/ AutoTickCompletes
    \/ RemoteIdleCompletes /\ snapshot' # snapshot
    \/ DrainsCommand /\ IsStop(Head(commands_q)) /\ ~emergency_stopped /\ emergency_stopped'

\* C34: the hub retains the latest snapshot: after every step in which the
\* controller publishes a snapshot (Auto tick, Remote tick, Remote idle,
\* recovery-macro tick, emergency stop) the state hub.get_state() returns is
\* that snapshot.
C34_HubRetainsLatest == [][Publishes => last_state' = snapshot']_vars

\* C38: a snapshot with mode RECOVERY or stuck flag 1 is published only for
\* the AUTO tick that triggered the stuck recovery or for a move of its
\* macro, and a move queued by a REMOTE command is published with mode
\* REMOTE and stuck flag 0: a step that publishes RECOVERY or stuck 1 is
\* taken in AUTO mode, and a move executed in REMOTE mode is published as
\* REMOTE with stuck 0.
C38_RecoveryOnlyAfterTrigger ==
    [][/\ (Publishes /\ (snapshot'.mode = "RECOVERY" \/ snapshot'.stuck = 1))
            => (auto_mode /\ (TriggerTickCompletes \/ QueuedTickCompletes))
       /\ (~auto_mode /\ (RemoteExecCompletes \/ QueuedTickCompletes))
            => (snapshot'.mode = "REMOTE" /\ snapshot'.stuck = 0)
      ]_vars

\* the queue is what is left of a stuck-recovery macro
FromMacro(q) ==
    \E turn_dir \in Turns : \E n \in 0..Len(RecoveryMacro(turn_dir)) :
        q = SubSeq(RecoveryMacro(turn_dir), n + 1, Len(RecoveryMacro(turn_dir)))

\* every queued move is the single-tick move of a REMOTE movement command
FromRemote(q) ==
    \A i \in 1..Len(q) :
        \E c \in RemoteCommands :
            /\ MotionCommand(c)
            /\ q[i] = [motion |-> c.name,
                       speed |-> IF c.speedk = "num" THEN c.speed
                                 ELSE DefaultSpeed(c.name),
                       ticks |-> 1]

\* C39: every stop and every mode-changing command (toggle, auto, mode-set)
\* the drain processes empties the queue; a movement command processed in
\* AUTO mode leaves the queue unchanged; and while run() is alive the queue
\* holds only moves of a stuck-recovery macro in AUTO mode and only moves of
\* REMOTE commands in REMOTE mode.
C39_QueueProvenance ==
    [][pc' # "crashed"
       => /\ (DrainsCommand
              /\ (IsStop(Head(commands_q)) \/ ModeChanging(Head(commands_q))))
                => queued_moves' = <<>>
          /\ (DrainsCommand /\ auto_mode /\ MotionCommand(Head(commands_q)))
                => queued_moves' = queued_moves
          /\ auto_mode' => FromMacro(queued_moves')
          /\ ~auto_mode' => FromRemote(queued_moves')
      ]_vars

\* C40: in the snapshot an AUTO iteration publishes, executed_motion and
\* executed_speed are the motion and speed the actuator was commanded with
\* in that iteration, and next_motion and next_speed are the head of the
\* queue if it is not empty, else the motion and speed just decided.
C40_SnapshotMatchesActuation ==
    [][AutoTickCompletes
       => /\ snapshot'.executed_motion = actuated'.motion
          /\ snapshot'.executed_speed = actuated'.speed
          /\ snapshot'.next_motion = IF queued_moves' # <<>> THEN queued_moves'[1].motion
                                     ELSE current_motion'
          /\ snapshot'.next_speed = IF queued_moves' # <<>> THEN queued_moves'[1].speed
                                    ELSE current_speed'
      ]_vars

====
